---------------------------- MODULE Spec2Model ----------------------------
(***************************************************************************)
(* State-machine model of the socket performance benchmark:                *)
(*   src/tcp_benchmark.py        TCPBenchmark (handle_client, tcp_client)  *)
(*   src/udp_benchmark.py        UDPBenchmark (udp_server, udp_client)     *)
(*   src/common.py               create_benchmark_result                   *)
(*   src/benchmark_runner.py     UnifiedBenchmark and main                 *)
(*   src/benchmark_remote_server.py  RemoteServer.udp_server               *)
(*                                                                         *)
(* Durations are whole clock ticks (a perf_counter difference, in ms).     *)
(* Quotients of floats are kept exact as fractions [num, den].             *)
(***************************************************************************)
EXTENDS Integers, Sequences, FiniteSets, TLC

\* ------------------------------------------------------------------ bounds
MaxIter == 2
MaxSize == 2
MaxDur == 1
MaxConn == 2

\* ------------------------------------------------------- program constants
MiB == 1048576
MsPerSecond == 1000
ProbeLen == 4

VARIABLES
    \* UnifiedBenchmark.__init__ / argparse
    host, args, iterations, data_size,
    \* main, run_comparison_benchmark, run_tcp_benchmark, run_udp_benchmark
    pc, check_result, tcp_result, udp_result, reported, raised,
    \* TCP engine: tcp_server task, tcp_client coroutine, handle_client task
    server_task, cpc, ci, results_tcp, cwriter, cexit,
    spc, si, sdata, sechoed, swriter, sexit, sclose, c2s, s2c,
    \* history: a TCP connect failed; the steps each protocol run has taken;
    \* calls of print_comparison_table; replies the UDP server sent the client
    connect_failed, phases, reports, echoes,
    \* calls of write / sendto and of read / recvfrom each client has made
    sends, recvs,
    \* UDP engine: udp_server thread, udp_client
    upc, running, server_running, toSrv, toCli, served,
    ucpc, ui, results_udp, ucsock, ucexit,
    \* the connections of a TCP server that serves several clients
    \* (benchmark_remote_server.py: RemoteServer.tcp_server)
    conns,
    \* the standalone server (benchmark_remote_server.py): the position of
    \* run_servers, and whether SIGINT or SIGTERM was delivered
    rpc, signalled

cfgVars == <<host, args, iterations, data_size>>
mainVars == <<pc, check_result, tcp_result, udp_result, reported, raised>>
tcpClientVars == <<cpc, ci, results_tcp, cwriter, cexit>>
tcpServerVars == <<spc, si, sdata, sechoed, swriter, sexit, sclose>>
tcpVars == <<server_task, tcpClientVars, tcpServerVars, c2s, s2c>>
udpServerVars == <<upc, running, server_running, served>>
udpClientVars == <<ucpc, ui, results_udp, ucsock, ucexit>>
udpVars == <<udpServerVars, udpClientVars, toSrv, toCli>>
histVars == <<connect_failed, phases, reports, echoes, sends, recvs>>
remoteVars == <<rpc, signalled>>
vars == <<cfgVars, mainVars, tcpVars, udpVars, histVars, conns, remoteVars>>

\* ----------------------------------------------------------------- values
None == [kind |-> "None"]
Unset == [kind |-> "unset"]
ZeroDivisionError == [kind |-> "raise", exc |-> "ZeroDivisionError"]
Durations == 0..MaxDur

\* Mutant of local_mode: the orchestrator always takes the remote branch.
never_local == FALSE

\* Mutant of local_mode: the orchestrator always takes the local branch.
always_local == TRUE

\* if self.host == 'localhost' (run_tcp_benchmark, run_udp_benchmark)
local_mode == host = "localhost"

\* The steps of one protocol run, in the order of the statements of
\* run_tcp_benchmark / run_udp_benchmark: local mode and remote mode.
LocalOrder ==
    <<"START_EMBEDDED_SERVER", "RUN_CLIENT", "STOP_EMBEDDED_SERVER",
      "COLLECT_RESULT", "DONE">>

RemoteOrder == <<"RUN_CLIENT", "COLLECT_RESULT", "DONE">>

IsPrefix(s, t) == Len(s) <= Len(t) /\ SubSeq(t, 1, Len(s)) = s

Last(s) == s[Len(s)]

Min2(a, b) == IF a <= b THEN a ELSE b

RECURSIVE sum(_)
sum(s) == IF s = <<>> THEN 0 ELSE Head(s) + sum(Tail(s))

RECURSIVE sumsq(_)
sumsq(s) == IF s = <<>> THEN 0 ELSE Head(s) * Head(s) + sumsq(Tail(s))

min(s) == CHOOSE x \in {s[k] : k \in 1..Len(s)} : \A k \in 1..Len(s) : x <= s[k]
max(s) == CHOOSE x \in {s[k] : k \in 1..Len(s)} : \A k \in 1..Len(s) : x >= s[k]

\* Mutant of std_dev: statistics.stdev is called whatever the length (a
\* variance over n-1 = 0 for one sample).
std_dev_unguarded(results) ==
    [sqrt_of |-> [num |-> Len(results) * sumsq(results) - sum(results) * sum(results),
                  den |-> Len(results) * (Len(results) - 1)]]

\* statistics.stdev(results) if len(results) > 1 else 0, kept as the square
\* root of an exact fraction: the sample (n-1) variance
\* (n*sum(x^2) - sum(x)^2) / (n*(n-1)).
std_dev(results) ==
    IF Len(results) > 1
    THEN [sqrt_of |-> [num |-> Len(results) * sumsq(results) - sum(results) * sum(results),
                       den |-> Len(results) * (Len(results) - 1)]]
    ELSE [sqrt_of |-> [num |-> 0, den |-> 1]]

\* total_data = self.iterations * self.data_size * 2
total_data(n, size) == n * size * 2

\* get_result: the dictionary it returns for a non-empty sample sequence
\* whose durations do not sum to zero.
get_result_dict(results) ==
    [kind |-> "dict",
     total_time |-> sum(results),
     avg_time |-> [num |-> sum(results), den |-> Len(results)],
     min_time |-> min(results),
     max_time |-> max(results),
     std_dev |-> std_dev(results),
     throughput |-> [num |-> total_data(iterations, data_size) * MsPerSecond,
                     den |-> MiB * sum(results)],
     total_data_mb |-> [num |-> total_data(iterations, data_size), den |-> MiB]]

\* Mutant of get_result: the `if not self.results: return None` guard is
\* missing, so an empty sequence reaches the statistics and raises.
get_result_unguarded(results) ==
    IF sum(results) = 0 THEN ZeroDivisionError ELSE get_result_dict(results)

\* TCPBenchmark.get_result / UDPBenchmark.get_result (the two bodies are the
\* same text).  The division by total_time / 1000 raises ZeroDivisionError
\* when the durations sum to zero.
get_result(results) ==
    IF results = <<>> THEN None
    ELSE IF sum(results) = 0 THEN ZeroDivisionError
    ELSE get_result_dict(results)

\* common.create_benchmark_result: a BenchmarkResult when get_result is
\* truthy, None otherwise; an exception of get_result propagates.
create_benchmark_result(results, protocol) ==
    LET result == get_result(results) IN
    IF result.kind = "raise" THEN result
    ELSE IF result.kind = "None" THEN None
    ELSE [kind |-> "BenchmarkResult",
          protocol |-> protocol,
          total_time |-> result.total_time,
          throughput |-> result.throughput,
          avg_time |-> result.avg_time,
          min_time |-> result.min_time,
          max_time |-> result.max_time]

\* The connections a TCP server may accept, and a connection not yet made.
Conns == 1..MaxConn

NoConn ==
    [hpc |-> "idle", i |-> 0, c2s |-> 0, peer |-> "none", writer |-> "none",
     exit |-> "none"]

\* ------------------------------------------------------------------- Init
\* The state after argparse and UnifiedBenchmark(...): nothing has run.  In
\* remote mode the server process (benchmark_remote_server.py) is either up
\* (TCP listening, UDP thread in its loop with server_running = True) or not.
Init ==
    /\ host \in {"localhost", "remote"}
    /\ args \in {"tcp", "udp", "compare"}
    /\ iterations \in 1..MaxIter
    /\ data_size \in 1..MaxSize
    /\ pc = "main"
    /\ check_result = "unset"
    /\ tcp_result = Unset
    /\ udp_result = Unset
    /\ reported = <<>>
    /\ raised = "none"
    /\ \E up \in BOOLEAN :
          /\ (local_mode => ~up)
          /\ server_task = IF up THEN "listening" ELSE "none"
          /\ upc = IF up THEN "loop" ELSE "none"
          /\ server_running = up
    /\ running = TRUE
    /\ cpc = "idle" /\ ci = 0 /\ results_tcp = <<>> /\ cwriter = "none"
    /\ cexit = "none"
    /\ spc = "idle" /\ si = 0 /\ sdata = -1 /\ sechoed = FALSE
    /\ swriter = "none" /\ sexit = "none" /\ sclose = "none"
    /\ c2s = 0 /\ s2c = 0
    /\ connect_failed = FALSE
    /\ phases = [tcp |-> <<>>, udp |-> <<>>]
    /\ reports = 0
    /\ echoes = 0
    /\ sends = [tcp |-> 0, udp |-> 0]
    /\ recvs = [tcp |-> 0, udp |-> 0]
    /\ toSrv = <<>> /\ toCli = 0
    /\ served = [len |-> -1, outcome |-> "none"]
    /\ ucpc = "idle" /\ ui = 0 /\ results_udp = <<>> /\ ucsock = "none"
    /\ ucexit = "none"
    /\ conns = [k \in Conns |-> NoConn]
    /\ rpc = "idle" /\ signalled = FALSE

\* ------------------------------------------------------------ TCP engine
\* StreamReader.read(n): at least one and at most n of the buffered bytes;
\* b'' at end of stream; otherwise it blocks (no value).
read(n, buffered, peer_closed) ==
    IF buffered > 0 THEN 1..Min2(n, buffered)
    ELSE IF peer_closed THEN {0}
    ELSE {}

\* Mutant of tcp_client_more: the loop runs one round too many.
tcp_client_more_extra(i) == i <= iterations

\* Mutant of tcp_client_more: the loop stops one round early.
tcp_client_more_short(i) == i < iterations - 1

\* for i in range(self.iterations) -- tcp_client
tcp_client_more(i) == i < iterations

\* for i in range(self.iterations) -- handle_client
handle_client_more(i) == i < iterations

\* Mutant of handle_client_disconnected: any length other than data_size
\* ends the loop, as in the UDP server.
handle_client_disconnected_strict(n) == n # data_size

\* if len(data) == 0:  # Client disconnected -- handle_client
handle_client_disconnected(n) == n = 0

\* if len(data) == 0:  # Server disconnected -- tcp_client
tcp_client_disconnected(n) == n = 0

\* Mutant of writer_close: the call is missing, the stream stays as it was.
writer_close_missing(w) == w

\* writer.close(): the stream is closed whatever state it was in.
writer_close(w) == "closed"

\* await writer.wait_closed() raises the error the connection was lost
\* with, when there was one: the peer is gone or the loop ended on a reset
\* or a broken pipe.
wait_closed(exit, peer) ==
    IF peer = "closed" \/ exit \in {"ConnectionResetError", "BrokenPipeError"}
    THEN {"ok", "error"} ELSE {"ok"}

\* The TCPBenchmark object and its connection leave scope when
\* run_tcp_benchmark returns (asyncio.run has cancelled what was left of the
\* embedded server; a remote server is no longer observed).
tcp_reset ==
    /\ server_task' = IF local_mode THEN "none" ELSE server_task
    /\ cpc' = "idle" /\ ci' = 0 /\ results_tcp' = <<>> /\ cwriter' = "none"
    /\ cexit' = "none"
    /\ spc' = "idle" /\ si' = 0 /\ sdata' = -1 /\ sechoed' = FALSE
    /\ swriter' = "none" /\ sexit' = "none" /\ sclose' = "none"
    /\ c2s' = 0 /\ s2c' = 0

\* tcp_server: asyncio.start_server binds and listens, or raises OSError
\* (address in use), which tcp_server prints.
tcp_server ==
    /\ pc = "tcp_wait" \/ (pc = "tcp_client" /\ cpc # "done")
    /\ server_task = "pending"
    /\ server_task' \in {"listening", "failed"}
    /\ UNCHANGED <<cfgVars, conns, remoteVars, mainVars, tcpClientVars, tcpServerVars, c2s, s2c,
                   udpVars, histVars>>

\* tcp_client: await asyncio.wait_for(asyncio.open_connection(...), 10.0).
\* Success starts handle_client on the server side; refusal, reset and
\* timeout are caught by the except clauses at the end of tcp_client.
tcp_client_connect ==
    /\ pc = "tcp_client" /\ cpc = "connect"
    /\ \E outcome \in {"connected", "refused", "ConnectionResetError",
                       "connect_timeout"} :
          /\ outcome = "connected" => server_task = "listening"
          /\ outcome = "refused" => server_task # "listening"
          /\ IF outcome = "connected"
             THEN /\ cpc' = "send" /\ cwriter' = "open" /\ cexit' = cexit
                  /\ spc' = "read" /\ swriter' = "open"
                  /\ connect_failed' = connect_failed
             ELSE /\ cpc' = "done" /\ cwriter' = cwriter /\ cexit' = outcome
                  /\ spc' = spc /\ swriter' = swriter
                  /\ connect_failed' = TRUE
    /\ UNCHANGED <<cfgVars, conns, remoteVars, mainVars, server_task, ci, results_tcp, si, sdata,
                   sechoed, sexit, sclose, c2s, s2c, udpVars,
                   phases, reports, echoes,
                   sends, recvs>>

\* Mutant of tcp_client_after: a timeout does not break out of the loop,
\* the iteration is tried again.
tcp_client_after_retry(outcome) ==
    CASE outcome = "sent" -> "recv"
      [] outcome \in {"send_timeout", "recv_timeout"} -> "send"
      [] outcome = "disconnected" -> "close"
      [] OTHER -> "done"

\* Where tcp_client goes after an operation of its loop: on to the receive
\* after a send; a timeout or an empty read breaks out of the loop, to
\* writer.close(); an exception leaves through the except clauses, past
\* writer.close().
tcp_client_after(outcome) ==
    CASE outcome = "sent" -> "recv"
      [] outcome \in {"send_timeout", "recv_timeout", "disconnected"} -> "close"
      [] OTHER -> "done"

\* tcp_client, one iteration, first half: the loop test, writer.write and
\* the bounded drain.  A drain timeout breaks out of the loop; a reset or a
\* broken pipe (the peer has closed) leaves through the except clauses, past
\* writer.close().
tcp_client_send ==
    /\ pc = "tcp_client" /\ cpc = "send"
    /\ IF ~tcp_client_more(ci)
       THEN /\ cpc' = "close" /\ cexit' = "completed" /\ c2s' = c2s
       ELSE \E outcome \in {"sent", "send_timeout", "ConnectionResetError",
                           "BrokenPipeError"} :
               /\ outcome \in {"ConnectionResetError", "BrokenPipeError"}
                     => swriter = "closed"
               /\ c2s' = IF outcome = "sent" /\ swriter = "open"
                         THEN c2s + data_size ELSE c2s
               /\ cpc' = tcp_client_after(outcome)
               /\ cexit' = IF outcome = "sent" THEN cexit ELSE outcome
    /\ sends' = IF tcp_client_more(ci)
                THEN [sends EXCEPT !.tcp = @ + 1] ELSE sends
    /\ UNCHANGED <<cfgVars, conns, remoteVars, mainVars, server_task, ci, results_tcp, cwriter,
                   tcpServerVars, s2c, udpVars, connect_failed, phases, reports, echoes,
                   recvs>>

\* tcp_client, one iteration, second half: the bounded read, then the
\* sample is appended, and only then is the length looked at.
tcp_client_recv ==
    /\ pc = "tcp_client" /\ cpc = "recv"
    /\ \/ \E n \in read(data_size, s2c, swriter = "closed"), d \in Durations :
             /\ s2c' = s2c - n
             /\ results_tcp' = Append(results_tcp, d)
             /\ IF tcp_client_disconnected(n)
                THEN /\ cpc' = tcp_client_after("disconnected")
                     /\ cexit' = "disconnected" /\ ci' = ci
                ELSE /\ cpc' = "send" /\ cexit' = cexit /\ ci' = ci + 1
       \/ /\ \E outcome \in {"recv_timeout", "ConnectionResetError"} :
                /\ outcome = "recv_timeout" => s2c = 0
                /\ outcome = "ConnectionResetError" => swriter = "closed"
                /\ cpc' = tcp_client_after(outcome)
                /\ cexit' = outcome
          /\ UNCHANGED <<s2c, results_tcp, ci>>
    /\ recvs' = [recvs EXCEPT !.tcp = @ + 1]
    /\ UNCHANGED <<cfgVars, conns, remoteVars, mainVars, server_task, cwriter, tcpServerVars, c2s,
                   udpVars, connect_failed, phases, reports, echoes,
                   sends>>

\* tcp_client: writer.close(); await writer.wait_closed() after the loop
\* (an error of wait_closed is caught by the except clauses that follow).
tcp_client_close ==
    /\ pc = "tcp_client" /\ cpc = "close"
    /\ cwriter' = writer_close(cwriter)
    /\ cpc' = "done"
    /\ UNCHANGED <<cfgVars, conns, remoteVars, mainVars, server_task, ci, results_tcp, cexit,
                   tcpServerVars, c2s, s2c, udpVars, histVars>>

\* The embedded server's tasks share the event loop with run_local: they
\* run only while it awaits tcp_client.  A remote server runs on its own.
handler_may_run ==
    IF local_mode THEN pc = "tcp_client" /\ cpc # "done"
    ELSE pc \in {"tcp_client", "tcp_print", "tcp_collect"}

\* handle_client, one iteration, first half: the loop test and the bounded
\* read.  An empty read breaks out of the loop; any other length goes on
\* to the echo.
handle_client_read ==
    /\ handler_may_run /\ spc = "read"
    /\ IF ~handle_client_more(si)
       THEN /\ spc' = "finally" /\ sexit' = "exhausted"
            /\ UNCHANGED <<c2s, sdata, sechoed>>
       ELSE \/ \E n \in read(data_size, c2s, cwriter = "closed") :
                  /\ c2s' = c2s - n
                  /\ sdata' = n
                  /\ sechoed' = FALSE
                  /\ IF handle_client_disconnected(n)
                     THEN spc' = "finally" /\ sexit' = "disconnected"
                     ELSE spc' = "echo" /\ sexit' = sexit
            \/ /\ \E outcome \in {"recv_timeout", "ConnectionResetError"} :
                     /\ outcome = "recv_timeout" => c2s = 0
                     /\ outcome = "ConnectionResetError" => cwriter = "closed"
                     /\ sexit' = outcome
               /\ spc' = "finally"
               /\ UNCHANGED <<c2s, sdata, sechoed>>
    /\ UNCHANGED <<cfgVars, conns, remoteVars, mainVars, server_task, tcpClientVars, si, swriter,
                   sclose, s2c, udpVars, histVars>>

\* handle_client, one iteration, second half: writer.write(self.test_data)
\* and the bounded drain.
handle_client_echo ==
    /\ handler_may_run /\ spc = "echo"
    /\ sechoed' = TRUE
    /\ \E outcome \in {"sent", "send_timeout", "ConnectionResetError",
                       "BrokenPipeError"} :
          /\ outcome \in {"ConnectionResetError", "BrokenPipeError"}
                => cwriter = "closed"
          /\ s2c' = IF outcome = "sent" /\ cwriter = "open"
                    THEN s2c + data_size ELSE s2c
          /\ IF outcome = "sent"
             THEN spc' = "read" /\ si' = si + 1 /\ sexit' = sexit
             ELSE spc' = "finally" /\ si' = si /\ sexit' = outcome
    /\ UNCHANGED <<cfgVars, conns, remoteVars, mainVars, server_task, tcpClientVars, sdata, swriter,
                   sclose, c2s, udpVars, histVars>>

\* handle_client: finally: try: writer.close(); await writer.wait_closed()
\* except Exception: print("Error closing writer").  The handler ends
\* normally either way.
handle_client_finally ==
    /\ handler_may_run /\ spc = "finally"
    /\ swriter' = writer_close(swriter)
    /\ \E outcome \in wait_closed(sexit, cwriter) :
          sclose' = IF outcome = "ok" THEN "closed" ELSE "error_logged"
    /\ spc' = "done"
    /\ UNCHANGED <<cfgVars, conns, remoteVars, mainVars, server_task, tcpClientVars, si, sdata,
                   sechoed, sexit, c2s, s2c, udpVars, histVars>>

\* ------------------------------------------------------------ UDP engine
\* Mutant of udp_client_more: the loop runs one round too many.
udp_client_more_extra(i) == i <= iterations

\* for i in range(self.iterations) -- udp_client
udp_client_more(i) == i < iterations

\* if len(data) == self.data_size -- udp_server (both server bodies)
udp_server_echoes(n) == n = data_size

\* socket.recvfrom(bufsize) on a datagram of `len` bytes: the whole datagram
\* when it fits; a longer one is cut to bufsize (POSIX) or the call raises
\* OSError, message too long (Windows).  -1 stands for the raise.
recvfrom(bufsize, len) ==
    IF len <= bufsize THEN {len} ELSE {bufsize, -1}

\* The server's datagram socket exists and is bound.
udp_bound == upc \in {"set_running", "loop", "recv", "finally"}

\* The server thread is scheduled: the embedded one runs beside the main
\* thread until the process exits; a remote one is observed during the UDP
\* run.
udp_server_may_run ==
    IF local_mode THEN pc \notin {"exit0", "exit1"}
    ELSE pc \in {"udp_client", "udp_print", "udp_collect"}

\* A datagram handed to the network for the server's port: queued when the
\* socket is bound, lost otherwise.
deliver(q, dgram) == IF udp_bound THEN Append(q, dgram) ELSE q

\* Mutant of sock_close: the call is missing, the socket stays as it was.
sock_close_missing(sock) == sock

\* sock.close()
sock_close(sock) == "closed"

\* udp_server: sock.bind((host, port)); OSError (address in use) ends the
\* thread before the loop is entered.
udp_server_bind ==
    /\ udp_server_may_run /\ upc = "bind"
    /\ upc' \in {"set_running", "dead"}
    /\ UNCHANGED <<cfgVars, conns, remoteVars, mainVars, tcpVars, running, server_running, served,
                   udpClientVars, toSrv, toCli, histVars>>

\* udp_server: self.server_running = True
udp_server_set_running ==
    /\ udp_server_may_run /\ upc = "set_running"
    /\ server_running' = TRUE
    /\ upc' = "loop"
    /\ UNCHANGED <<cfgVars, conns, remoteVars, mainVars, tcpVars, running, served, udpClientVars,
                   toSrv, toCli, histVars>>

\* udp_server: while self.server_running (UDPBenchmark) /
\* while self.running and benchmark.server_running (RemoteServer)
udp_server_loop ==
    /\ udp_server_may_run /\ upc = "loop"
    /\ upc' = IF (local_mode \/ running) /\ server_running
              THEN "recv" ELSE "finally"
    /\ UNCHANGED <<cfgVars, conns, remoteVars, mainVars, tcpVars, running, server_running, served,
                   udpClientVars, toSrv, toCli, histVars>>

\* udp_server: data, addr = sock.recvfrom(self.data_size), then the echo of
\* test_data to addr when the length is data_size.  The socket is given no
\* timeout, so recvfrom returns only with a datagram (the socket.timeout
\* clause is never entered).  Any exception breaks out of the loop.
udp_server_recv ==
    /\ udp_server_may_run /\ upc = "recv"
    /\ toSrv # <<>>
    /\ toSrv' = Tail(toSrv)
    /\ \E n \in recvfrom(data_size, Head(toSrv).len) :
          IF n = -1
          THEN /\ served' = [len |-> Head(toSrv).len, outcome |-> "error"]
               /\ upc' = "finally"
               /\ toCli' = toCli
          ELSE /\ served' = [len |-> Head(toSrv).len,
                             outcome |-> IF udp_server_echoes(n)
                                         THEN "echo" ELSE "drop"]
               /\ upc' = "loop"
               /\ toCli' = IF /\ udp_server_echoes(n)
                              /\ Head(toSrv).from = "client"
                              /\ ucsock = "open"
                           THEN toCli + 1 ELSE toCli
    /\ echoes' = IF toCli' = toCli THEN echoes ELSE echoes + 1
    /\ UNCHANGED <<cfgVars, conns, remoteVars, mainVars, tcpVars, running, server_running,
                   udpClientVars, connect_failed, phases, reports,
                   sends, recvs>>

\* udp_server: finally: sock.close()
udp_server_finally ==
    /\ udp_server_may_run /\ upc = "finally"
    /\ upc' = "stopped"
    /\ UNCHANGED <<cfgVars, conns, remoteVars, mainVars, tcpVars, running, server_running, served,
                   udpClientVars, toSrv, toCli, histVars>>

\* udp_client, one iteration, first half: the loop test and sock.sendto.
\* An OSError leaves through except Exception, which ends the loop.
udp_client_send ==
    /\ pc = "udp_client" /\ ucpc = "send"
    /\ IF ~udp_client_more(ui)
       THEN /\ ucpc' = "finally" /\ ucexit' = "completed" /\ toSrv' = toSrv
       ELSE \E outcome \in {"sent", "OSError"} :
               /\ toSrv' = IF outcome = "sent"
                           THEN deliver(toSrv, [len |-> data_size,
                                                from |-> "client"])
                           ELSE toSrv
               /\ ucpc' = IF outcome = "sent" THEN "recv" ELSE "finally"
               /\ ucexit' = IF outcome = "sent" THEN ucexit ELSE outcome
    /\ sends' = IF udp_client_more(ui)
                THEN [sends EXCEPT !.udp = @ + 1] ELSE sends
    /\ UNCHANGED <<cfgVars, conns, remoteVars, mainVars, tcpVars, udpServerVars, ui, results_udp,
                   ucsock, toCli, connect_failed, phases, reports, echoes,
                   recvs>>

\* Mutant of udp_client_recvfrom: no timeout is raised, the call returns as
\* if a datagram had come.
udp_client_recvfrom_no_timeout(pending) == "datagram"

\* sock.recvfrom on the client socket after sock.settimeout(5.0): a pending
\* reply is returned; with none within 5 s, socket.timeout is raised.
udp_client_recvfrom(pending) == IF pending > 0 THEN "datagram" ELSE "timeout"

\* udp_client, one iteration, second half: sock.recvfrom under the 5 s
\* socket timeout, then the sample is appended.  socket.timeout leaves
\* through except Exception, which is outside the for loop.
udp_client_recv ==
    /\ pc = "udp_client" /\ ucpc = "recv"
    /\ IF udp_client_recvfrom(toCli) = "datagram"
       THEN /\ toCli' = IF toCli > 0 THEN toCli - 1 ELSE toCli
            /\ \E d \in Durations : results_udp' = Append(results_udp, d)
            /\ ui' = ui + 1
            /\ ucpc' = "send"
            /\ ucexit' = ucexit
       ELSE /\ ucexit' = "timeout"
            /\ ucpc' = "finally"
            /\ UNCHANGED <<toCli, results_udp, ui>>
    /\ recvs' = [recvs EXCEPT !.udp = @ + 1]
    /\ UNCHANGED <<cfgVars, conns, remoteVars, mainVars, tcpVars, udpServerVars, ucsock, toSrv, connect_failed, phases, reports, echoes,
                   sends>>

\* udp_client: finally: sock.close()
udp_client_finally ==
    /\ pc = "udp_client" /\ ucpc = "finally"
    /\ ucsock' = sock_close(ucsock)
    /\ ucpc' = "done"
    /\ UNCHANGED <<cfgVars, conns, remoteVars, mainVars, tcpVars, udpServerVars, ui, results_udp,
                   ucexit, toSrv, toCli, histVars>>

\* ---------------------------------------------------------- orchestrator
\* check_network_connectivity, given what ping and the TCP port probe
\* observed: False as soon as either fails; the UDP probe never fails it.
check_network_connectivity(ping_ok, port_ok) == ping_ok /\ port_ok

\* Mutant of after_tcp: the comparison run goes from the TCP run straight to
\* the report.
after_tcp_skips_udp == IF args = "compare" THEN "cmp_report" ELSE "exit0"

\* Where run_tcp_benchmark returns to: main (--tcp) or
\* run_comparison_benchmark, which goes on to run_udp_benchmark.
after_tcp == IF args = "compare" THEN "udp_start" ELSE "exit0"

\* Where run_udp_benchmark returns to: main (--udp) or
\* run_comparison_benchmark, which goes on to print_comparison_table.
after_udp == IF args = "compare" THEN "cmp_report" ELSE "exit0"

\* main: the dispatch on args.tcp / args.udp / args.compare inside try.
main ==
    /\ pc = "main"
    /\ pc' = CASE args = "tcp" -> "tcp_start"
               [] args = "udp" -> "udp_start"
               [] OTHER -> "cmp_check"
    /\ UNCHANGED <<cfgVars, conns, remoteVars, check_result, tcp_result, udp_result, reported,
                   raised, tcpVars, udpVars, histVars>>

\* run_comparison_benchmark: if self.host != 'localhost' and not
\* self.check_network_connectivity(): return False.  The pre-check pings,
\* probes the TCP port, and last sends b"test" to the UDP port.
run_comparison_benchmark_check ==
    /\ pc = "cmp_check"
    /\ IF local_mode
       THEN /\ pc' = "tcp_start"
            /\ UNCHANGED <<check_result, toSrv>>
       ELSE \E ping_ok \in BOOLEAN, port_ok \in BOOLEAN :
               /\ port_ok => server_task = "listening"
               /\ IF check_network_connectivity(ping_ok, port_ok)
                  THEN /\ check_result' = "True"
                       /\ toSrv' = deliver(toSrv, [len |-> ProbeLen,
                                                   from |-> "probe"])
                       /\ pc' = "tcp_start"
                  ELSE /\ check_result' = "False"
                       /\ toSrv' = toSrv
                       /\ pc' = "exit0"
    /\ UNCHANGED <<cfgVars, conns, remoteVars, tcp_result, udp_result, reported, raised, tcpVars,
                   udpServerVars, udpClientVars, toCli, histVars>>

\* run_tcp_benchmark: TCPBenchmark(...); local mode creates the tcp_server
\* task, remote mode goes straight to the client.
run_tcp_benchmark_start ==
    /\ pc = "tcp_start"
    /\ IF local_mode
       THEN /\ server_task' = "pending"
            /\ pc' = "tcp_wait"
            /\ cpc' = cpc
       ELSE /\ server_task' = server_task
            /\ pc' = "tcp_client"
            /\ cpc' = "connect"
    /\ phases' = [phases EXCEPT !.tcp = <<IF local_mode THEN "START_EMBEDDED_SERVER"
                                           ELSE "RUN_CLIENT">>]
    /\ UNCHANGED <<cfgVars, conns, remoteVars, check_result, tcp_result, udp_result, reported,
                   raised, ci, results_tcp, cwriter, cexit, tcpServerVars, c2s,
                   s2c, udpVars, connect_failed, reports, echoes,
                   sends, recvs>>

\* run_local: await asyncio.sleep(1), then await benchmark.tcp_client()
run_tcp_benchmark_wait ==
    /\ pc = "tcp_wait"
    /\ pc' = "tcp_client"
    /\ cpc' = "connect"
    /\ phases' = [phases EXCEPT !.tcp = Append(@, "RUN_CLIENT")]
    /\ UNCHANGED <<cfgVars, conns, remoteVars, check_result, tcp_result, udp_result, reported,
                   raised, server_task, ci, results_tcp, cwriter, cexit,
                   tcpServerVars, c2s, s2c, udpVars, connect_failed, reports, echoes,
                   sends, recvs>>

\* run_local: server_task.cancel() once tcp_client has returned (a task
\* that already ended stays as it ended); run_remote has no server.
run_tcp_benchmark_cancel ==
    /\ pc = "tcp_client" /\ cpc = "done"
    /\ server_task' = IF local_mode /\ server_task \in {"pending", "listening"}
                      THEN "cancelled" ELSE server_task
    /\ pc' = "tcp_print"
    /\ phases' = IF local_mode
                 THEN [phases EXCEPT !.tcp = Append(@, "STOP_EMBEDDED_SERVER")]
                 ELSE phases
    /\ UNCHANGED <<cfgVars, conns, remoteVars, check_result, tcp_result, udp_result, reported,
                   raised, tcpClientVars, tcpServerVars, c2s, s2c, udpVars,
                   connect_failed, reports, echoes,
                   sends, recvs>>

\* benchmark.print_results(): calls get_result; its exception is not caught
\* before main's except Exception, which prints it and calls sys.exit(1).
run_tcp_benchmark_print ==
    /\ pc = "tcp_print"
    /\ IF get_result(results_tcp).kind = "raise"
       THEN /\ raised' = "tcp"
            /\ pc' = "exit1"
            /\ tcp_reset
       ELSE /\ raised' = raised
            /\ pc' = "tcp_collect"
            /\ UNCHANGED tcpVars
    /\ UNCHANGED <<cfgVars, conns, remoteVars, check_result, tcp_result, udp_result, reported,
                   udpVars, histVars>>

\* return create_benchmark_result(benchmark, "TCP")
run_tcp_benchmark_collect ==
    /\ pc = "tcp_collect"
    /\ LET result == create_benchmark_result(results_tcp, "TCP") IN
       IF result.kind = "raise"
       THEN /\ raised' = "tcp"
            /\ pc' = "exit1"
            /\ tcp_result' = tcp_result
       ELSE /\ raised' = raised
            /\ pc' = after_tcp
            /\ tcp_result' = result
    /\ tcp_reset
    /\ phases' = IF create_benchmark_result(results_tcp, "TCP").kind = "raise"
                 THEN phases
                 ELSE [phases EXCEPT !.tcp = @ \o <<"COLLECT_RESULT", "DONE">>]
    /\ UNCHANGED <<cfgVars, conns, remoteVars, check_result, udp_result, reported, udpVars,
                   connect_failed, reports, echoes,
                   sends, recvs>>

\* run_udp_benchmark: UDPBenchmark(...); local mode starts the udp_server
\* thread, remote mode goes straight to the client (which creates its
\* socket first).
run_udp_benchmark_start ==
    /\ pc = "udp_start"
    /\ IF local_mode
       THEN /\ upc' = "bind"
            /\ server_running' = FALSE
            /\ pc' = "udp_wait"
            /\ UNCHANGED <<ucpc, ucsock>>
       ELSE /\ UNCHANGED <<upc, server_running>>
            /\ pc' = "udp_client"
            /\ ucpc' = "send"
            /\ ucsock' = "open"
    /\ phases' = [phases EXCEPT !.udp = <<IF local_mode THEN "START_EMBEDDED_SERVER"
                                           ELSE "RUN_CLIENT">>]
    /\ UNCHANGED <<cfgVars, conns, remoteVars, check_result, tcp_result, udp_result, reported,
                   raised, tcpVars, running, served, ui, results_udp, ucexit,
                   toSrv, toCli, connect_failed, reports, echoes,
                   sends, recvs>>

\* time.sleep(1), then benchmark.udp_client()
run_udp_benchmark_wait ==
    /\ pc = "udp_wait"
    /\ pc' = "udp_client"
    /\ ucpc' = "send"
    /\ ucsock' = "open"
    /\ phases' = [phases EXCEPT !.udp = Append(@, "RUN_CLIENT")]
    /\ UNCHANGED <<cfgVars, conns, remoteVars, check_result, tcp_result, udp_result, reported,
                   raised, tcpVars, udpServerVars, ui, results_udp, ucexit,
                   toSrv, toCli, connect_failed, reports, echoes,
                   sends, recvs>>

\* benchmark.server_running = False once udp_client has returned (local
\* mode only).
run_udp_benchmark_stop ==
    /\ pc = "udp_client" /\ ucpc = "done"
    /\ IF local_mode
       THEN server_running' = FALSE /\ pc' = "udp_join"
       ELSE server_running' = server_running /\ pc' = "udp_print"
    /\ phases' = IF local_mode
                 THEN [phases EXCEPT !.udp = Append(@, "STOP_EMBEDDED_SERVER")]
                 ELSE phases
    /\ UNCHANGED <<cfgVars, conns, remoteVars, check_result, tcp_result, udp_result, reported,
                   raised, tcpVars, upc, running, served, udpClientVars, toSrv,
                   toCli, connect_failed, reports, echoes,
                   sends, recvs>>

\* Mutant of join: no timeout is given, the call returns only when the
\* thread has ended.
join_untimed(ended, timed_out) == ended

\* Thread.join(timeout): returns once the thread has ended or the timeout
\* has passed, whichever comes first.
join(ended, timed_out) == ended \/ timed_out

\* server_thread.join(timeout=2): returns whether or not the thread ended.
run_udp_benchmark_join ==
    /\ pc = "udp_join"
    /\ \E timed_out \in BOOLEAN :
          join(upc \in {"stopped", "dead"}, timed_out)
    /\ pc' = "udp_print"
    /\ UNCHANGED <<cfgVars, conns, remoteVars, check_result, tcp_result, udp_result, reported,
                   raised, tcpVars, udpVars, histVars>>

\* benchmark.print_results(), as for TCP.
run_udp_benchmark_print ==
    /\ pc = "udp_print"
    /\ IF get_result(results_udp).kind = "raise"
       THEN raised' = "udp" /\ pc' = "exit1"
       ELSE raised' = raised /\ pc' = "udp_collect"
    /\ UNCHANGED <<cfgVars, conns, remoteVars, check_result, tcp_result, udp_result, reported,
                   tcpVars, udpVars, histVars>>

\* return create_benchmark_result(benchmark, "UDP")
run_udp_benchmark_collect ==
    /\ pc = "udp_collect"
    /\ LET result == create_benchmark_result(results_udp, "UDP") IN
       IF result.kind = "raise"
       THEN /\ raised' = "udp"
            /\ pc' = "exit1"
            /\ udp_result' = udp_result
       ELSE /\ raised' = raised
            /\ pc' = after_udp
            /\ udp_result' = result
    /\ phases' = IF create_benchmark_result(results_udp, "UDP").kind = "raise"
                 THEN phases
                 ELSE [phases EXCEPT !.udp = @ \o <<"COLLECT_RESULT", "DONE">>]
    /\ UNCHANGED <<cfgVars, conns, remoteVars, check_result, tcp_result, reported, tcpVars,
                   udpVars, connect_failed, reports, echoes,
                   sends, recvs>>

\* print_comparison_table([tcp_result, udp_result]); return True
run_comparison_benchmark_report ==
    /\ pc = "cmp_report"
    /\ reported' = <<tcp_result, udp_result>>
    /\ pc' = "exit0"
    /\ reports' = reports + 1
    /\ UNCHANGED <<cfgVars, conns, remoteVars, check_result, tcp_result, udp_result, raised,
                   tcpVars, udpVars, connect_failed, phases, echoes,
                   sends, recvs>>

\* ------------------------------------------------------------------- Spec
Next ==
    \/ main
    \/ run_comparison_benchmark_check
    \/ run_tcp_benchmark_start
    \/ run_tcp_benchmark_wait
    \/ run_tcp_benchmark_cancel
    \/ run_tcp_benchmark_print
    \/ run_tcp_benchmark_collect
    \/ run_udp_benchmark_start
    \/ run_udp_benchmark_wait
    \/ run_udp_benchmark_stop
    \/ run_udp_benchmark_join
    \/ run_udp_benchmark_print
    \/ run_udp_benchmark_collect
    \/ run_comparison_benchmark_report
    \/ tcp_server
    \/ tcp_client_connect
    \/ tcp_client_send
    \/ tcp_client_recv
    \/ tcp_client_close
    \/ handle_client_read
    \/ handle_client_echo
    \/ handle_client_finally
    \/ udp_server_bind
    \/ udp_server_set_running
    \/ udp_server_loop
    \/ udp_server_recv
    \/ udp_server_finally
    \/ udp_client_send
    \/ udp_client_recv
    \/ udp_client_finally

Spec == Init /\ [][Next]_vars

\* The threads and tasks of the program.  The orchestrator and the two
\* clients are the main thread; the embedded TCP server and its handler are
\* tasks of the event loop; the UDP server is a thread of its own.
Orchestrator ==
    \/ main
    \/ run_comparison_benchmark_check
    \/ run_tcp_benchmark_start
    \/ run_tcp_benchmark_wait
    \/ run_tcp_benchmark_cancel
    \/ run_tcp_benchmark_print
    \/ run_tcp_benchmark_collect
    \/ run_udp_benchmark_start
    \/ run_udp_benchmark_wait
    \/ run_udp_benchmark_stop
    \/ run_udp_benchmark_join
    \/ run_udp_benchmark_print
    \/ run_udp_benchmark_collect
    \/ run_comparison_benchmark_report

TcpClient ==
    \/ tcp_client_connect
    \/ tcp_client_send
    \/ tcp_client_recv
    \/ tcp_client_close

TcpHandler ==
    \/ handle_client_read
    \/ handle_client_echo
    \/ handle_client_finally

UdpServer ==
    \/ udp_server_bind
    \/ udp_server_set_running
    \/ udp_server_loop
    \/ udp_server_recv
    \/ udp_server_finally

UdpClient ==
    \/ udp_client_send
    \/ udp_client_recv
    \/ udp_client_finally

\* Every thread and task that can take a step is eventually scheduled: the
\* operating system's threads and the event loop's ready queue are fair.
FairSpec ==
    /\ Spec
    /\ WF_vars(Orchestrator)
    /\ WF_vars(TcpClient)
    /\ WF_vars(tcp_server)
    /\ WF_vars(TcpHandler)
    /\ WF_vars(UdpServer)
    /\ WF_vars(UdpClient)

\* ------------------------------------- a TCP server with several clients
\* asyncio.start_server(handle_client, ...) followed by serve_forever, as in
\* TCPBenchmark.tcp_server and RemoteServer.tcp_server: one handle_client
\* task per accepted connection, each with its own reader and writer, all
\* reading the same iterations and data_size.  conns[k] is connection k:
\* its handler's position (hpc), loop index (i), bytes waiting to be read
\* (c2s), what its peer did (peer), its writer, and how its loop ended.
clientVars ==
    <<host, args, iterations, data_size, mainVars, tcpClientVars,
      tcpServerVars, c2s, s2c, udpVars, histVars, remoteVars>>

\* The loop of connection k ended on a timeout, a reset or a broken pipe.
conn_faulted(k) ==
    conns[k].exit \in {"recv_timeout", "send_timeout", "ConnectionResetError",
                       "BrokenPipeError"}

\* Mutant of server_after_handler: a handler that ended on a fault takes
\* the server down with it.
server_after_handler_fatal(task, exit) ==
    IF exit \in {"recv_timeout", "send_timeout", "ConnectionResetError",
                 "BrokenPipeError"}
    THEN "failed" ELSE task

\* handle_client catches the timeouts at the call and every exception in
\* its except clauses, and only prints: nothing reaches the server task,
\* which stays as it was.
server_after_handler(task, exit) == task

ServerInit ==
    /\ Init
    /\ host = "remote" /\ args = "tcp"
    /\ server_task = "listening"

\* A client connects; the listening server starts handle_client for it.
accept(k) ==
    /\ server_task = "listening"
    /\ conns[k].hpc = "idle"
    /\ conns' = [conns EXCEPT ![k] =
                    [NoConn EXCEPT !.hpc = "read", !.peer = "open",
                                   !.writer = "open"]]
    /\ UNCHANGED <<server_task, clientVars>>

\* The client of connection k sends its next data_size bytes.
peer_send(k) ==
    /\ conns[k].peer = "open" /\ conns[k].hpc = "read" /\ conns[k].c2s = 0
    /\ handle_client_more(conns[k].i)
    /\ conns' = [conns EXCEPT ![k].c2s = data_size]
    /\ UNCHANGED <<server_task, clientVars>>

\* The client of connection k closes its end while the handler is in its
\* loop (what the peer does later the handler does not see).
peer_close(k) ==
    /\ conns[k].peer = "open" /\ conns[k].hpc \in {"read", "echo"}
    /\ conns' = [conns EXCEPT ![k].peer = "closed"]
    /\ UNCHANGED <<server_task, clientVars>>

\* The connection is reset from the client's side.
peer_reset(k) ==
    /\ conns[k].peer = "open" /\ conns[k].hpc \in {"read", "echo"}
    /\ conns' = [conns EXCEPT ![k].peer = "reset"]
    /\ UNCHANGED <<server_task, clientVars>>

\* The loop of a connection is left: the handler goes to its finally
\* clause; the loop index and what is left unread are used no more.
leave_loop(c, how) ==
    [c EXCEPT !.hpc = "finally", !.exit = how, !.i = 0, !.c2s = 0]

\* handle_client of connection k: the loop test and the bounded read.
conn_read(k) ==
    /\ conns[k].hpc = "read"
    /\ IF ~handle_client_more(conns[k].i)
       THEN conns' = [conns EXCEPT ![k] = leave_loop(@, "exhausted")]
       ELSE \/ /\ conns[k].peer # "reset"
               /\ \E n \in read(data_size, conns[k].c2s,
                                conns[k].peer = "closed") :
                     conns' = IF handle_client_disconnected(n)
                              THEN [conns EXCEPT
                                      ![k] = leave_loop(@, "disconnected")]
                              ELSE [conns EXCEPT ![k].c2s = @ - n,
                                                 ![k].hpc = "echo"]
            \/ \E outcome \in {"recv_timeout", "ConnectionResetError"} :
                  /\ outcome = "recv_timeout"
                        => conns[k].c2s = 0 /\ conns[k].peer = "open"
                  /\ outcome = "ConnectionResetError"
                        => conns[k].peer = "reset"
                  /\ conns' = [conns EXCEPT ![k] = leave_loop(@, outcome)]
    /\ UNCHANGED <<server_task, clientVars>>

\* handle_client of connection k: writer.write(self.test_data) and the
\* bounded drain.
conn_echo(k) ==
    /\ conns[k].hpc = "echo"
    /\ \E outcome \in {"sent", "send_timeout", "ConnectionResetError",
                       "BrokenPipeError"} :
          /\ outcome = "ConnectionResetError" => conns[k].peer = "reset"
          /\ outcome = "BrokenPipeError" => conns[k].peer = "closed"
          /\ outcome = "sent" => conns[k].peer # "reset"
          /\ conns' = IF outcome = "sent"
                      THEN [conns EXCEPT
                              ![k].hpc = "read",
                              ![k].i = @ + 1]
                      ELSE [conns EXCEPT ![k] = leave_loop(@, outcome)]
    /\ UNCHANGED <<server_task, clientVars>>

\* handle_client of connection k: the finally clause; the handler task
\* ends and the connection is gone.
conn_finally(k) ==
    /\ conns[k].hpc = "finally"
    /\ conns' = [conns EXCEPT ![k].hpc = "done",
                              ![k].writer = writer_close(@),
                              ![k].peer = "closed"]
    /\ server_task' = server_after_handler(server_task, conns[k].exit)
    /\ UNCHANGED clientVars

ServerNext ==
    \E k \in Conns :
        \/ accept(k)
        \/ peer_send(k)
        \/ peer_close(k)
        \/ peer_reset(k)
        \/ conn_read(k)
        \/ conn_echo(k)
        \/ conn_finally(k)

ServerSpec == ServerInit /\ [][ServerNext]_vars

\* ------------------------------------------------- the standalone server
\* RemoteServer: __init__ sets running = True and installs signal_handler
\* for SIGINT and SIGTERM; run_servers starts the udp_server thread, sleeps
\* and awaits tcp_server, which serves forever.
benchVars ==
    <<cfgVars, mainVars, tcpClientVars, tcpServerVars, c2s, s2c,
      udpClientVars, toCli, histVars, conns>>

RemoteInit ==
    /\ Init
    /\ host = "remote" /\ args = "tcp"
    /\ server_task = "none" /\ upc = "none"

\* The server process is alive (main has not called sys.exit).
remote_alive == rpc # "raised"

\* run_servers: udp_thread = threading.Thread(target=self.udp_server);
\* udp_thread.daemon = True; udp_thread.start()
run_servers_start ==
    /\ rpc = "idle"
    /\ rpc' = "sleep"
    /\ upc' = "init"
    /\ UNCHANGED <<benchVars, signalled, running, server_task, server_running,
                   toSrv, served>>

\* run_servers: await asyncio.sleep(1)
run_servers_sleep ==
    /\ rpc = "sleep"
    /\ rpc' = "tcp_server"
    /\ UNCHANGED <<benchVars, signalled, running, server_task, upc,
                   server_running, toSrv, served>>

\* run_servers: await self.tcp_server().  start_server binds and listens,
\* then serve_forever is awaited and does not return; an OSError of
\* start_server passes through finally: self.running = False to main,
\* which calls sys.exit(1).
run_servers_tcp_server ==
    /\ rpc = "tcp_server"
    /\ \E outcome \in {"listening", "failed"} :
          /\ server_task' = outcome
          /\ rpc' = IF outcome = "listening" THEN "serving" ELSE "raised"
          /\ running' = IF outcome = "listening" THEN running ELSE FALSE
    /\ UNCHANGED <<benchVars, signalled, upc, server_running, toSrv, served>>

\* signal_handler: self.running = False, and nothing else.
signal_handler ==
    /\ remote_alive /\ ~signalled
    /\ signalled' = TRUE
    /\ running' = FALSE
    /\ UNCHANGED <<benchVars, rpc, server_task, upc, server_running, toSrv,
                   served>>

\* RemoteServer.udp_server: benchmark = UDPBenchmark(...);
\* benchmark.server_running = True
remote_udp_server_init ==
    /\ remote_alive /\ upc = "init"
    /\ server_running' = TRUE
    /\ upc' = "bind"
    /\ UNCHANGED <<benchVars, remoteVars, running, server_task, toSrv, served>>

\* RemoteServer.udp_server: sock.bind(...); an OSError ends the thread.
remote_udp_server_bind ==
    /\ remote_alive /\ upc = "bind"
    /\ upc' \in {"loop", "dead"}
    /\ UNCHANGED <<benchVars, remoteVars, running, server_task, server_running,
                   toSrv, served>>

\* RemoteServer.udp_server: while self.running and benchmark.server_running
remote_udp_server_loop ==
    /\ remote_alive /\ upc = "loop"
    /\ upc' = IF running /\ server_running THEN "recv" ELSE "finally"
    /\ UNCHANGED <<benchVars, remoteVars, running, server_task, server_running,
                   toSrv, served>>

\* RemoteServer.udp_server: sock.recvfrom(self.data_size) on a socket with
\* no timeout, then the echo when the length is data_size; an exception
\* breaks out of the loop.
remote_udp_server_recv ==
    /\ remote_alive /\ upc = "recv"
    /\ toSrv # <<>>
    /\ toSrv' = Tail(toSrv)
    /\ \E n \in recvfrom(data_size, Head(toSrv).len) :
          IF n = -1
          THEN /\ served' = [len |-> Head(toSrv).len, outcome |-> "error"]
               /\ upc' = "finally"
          ELSE /\ served' = [len |-> Head(toSrv).len,
                             outcome |-> IF udp_server_echoes(n)
                                         THEN "echo" ELSE "drop"]
               /\ upc' = "loop"
    /\ UNCHANGED <<benchVars, remoteVars, running, server_task, server_running>>

\* RemoteServer.udp_server: finally: sock.close()
remote_udp_server_finally ==
    /\ remote_alive /\ upc = "finally"
    /\ upc' = "stopped"
    /\ UNCHANGED <<benchVars, remoteVars, running, server_task, server_running,
                   toSrv, served>>

\* A client somewhere sends a datagram to the server's bound UDP port.
peer_datagram ==
    /\ remote_alive /\ upc \in {"loop", "recv"} /\ toSrv = <<>>
    /\ \E len \in 1..(MaxSize + 1) :
          toSrv' = <<[len |-> len, from |-> "peer"]>>
    /\ UNCHANGED <<benchVars, remoteVars, running, server_task, upc,
                   server_running, served>>

RunServers ==
    \/ run_servers_start
    \/ run_servers_sleep
    \/ run_servers_tcp_server

RemoteUdpServer ==
    \/ remote_udp_server_init
    \/ remote_udp_server_bind
    \/ remote_udp_server_loop
    \/ remote_udp_server_recv
    \/ remote_udp_server_finally

RemoteNext ==
    \/ run_servers_start
    \/ run_servers_sleep
    \/ run_servers_tcp_server
    \/ signal_handler
    \/ remote_udp_server_init
    \/ remote_udp_server_bind
    \/ remote_udp_server_loop
    \/ remote_udp_server_recv
    \/ remote_udp_server_finally
    \/ peer_datagram

\* The event loop's main task and the UDP thread are scheduled fairly;
\* signals and datagrams come when the outside world sends them.
FairRemoteSpec ==
    /\ RemoteInit
    /\ [][RemoteNext]_vars
    /\ WF_vars(RunServers)
    /\ WF_vars(RemoteUdpServer)

\* ----------------------------------------------------------------- claims
\* The TCP client has returned to run_tcp_benchmark and the benchmark object
\* is still in scope.
tcp_client_returned ==
    \/ pc = "tcp_client" /\ cpc = "done"
    \/ pc \in {"tcp_print", "tcp_collect"}

\* The UDP client has returned to run_udp_benchmark.
udp_client_returned ==
    \/ pc = "udp_client" /\ ucpc = "done"
    \/ pc \in {"udp_join", "udp_print", "udp_collect"}

\* A timeout, disconnect or transport error occurred in the TCP run, on
\* either side of the connection.
tcp_fault ==
    \/ cexit \notin {"none", "completed"}
    \/ sexit \notin {"none", "exhausted"}
    \/ server_task = "failed"

\* A timeout or transport error occurred in the UDP run, on either side.
udp_fault ==
    \/ ucexit \notin {"none", "completed"}
    \/ upc = "dead"
    \/ served.outcome = "error"

main_ended == pc \in {"exit0", "exit1"}

\* C1: in every reachable state of a TCP or UDP client run the recorded
\* sample sequence is no longer than iterations.
C1_SamplesAtMostIterations ==
    /\ Len(results_tcp) <= iterations
    /\ Len(results_udp) <= iterations

C1_Witness ==
    /\ iterations > 1
    /\ pc = "tcp_client" /\ cpc = "send"
    /\ Len(results_tcp) = iterations

\* C2: a local-mode run in which no timeout, disconnect or transport error
\* occurred ends with exactly iterations samples, for TCP and for UDP.
C2_FaultFreeLocalRunIsComplete ==
    /\ (local_mode /\ tcp_client_returned /\ ~tcp_fault)
          => Len(results_tcp) = iterations
    /\ (local_mode /\ udp_client_returned /\ ~udp_fault)
          => Len(results_udp) = iterations

C2_Witness ==
    /\ local_mode /\ iterations > 1
    /\ pc = "tcp_print" /\ ~tcp_fault
    /\ Len(results_tcp) = iterations

\* C3 (as claimed): a UDP receive timeout or other transport failure in
\* iteration i costs only that iteration, so when udp_client ends after a
\* failure every iteration has been entered (the failed one was the last).
C3_FailureCostsOneIteration ==
    (ucpc = "done" /\ ucexit \in {"timeout", "OSError"})
        => ui + 1 = iterations

\* C4 (as claimed): the byte total get_result uses is
\* len(results) * data_size * 2, also after a run that stopped early.
C4_BytesOfCompletedIterations ==
    /\ (tcp_client_returned /\ get_result(results_tcp).kind = "dict")
          => get_result(results_tcp).total_data_mb.num
                = total_data(Len(results_tcp), data_size)
    /\ (udp_client_returned /\ get_result(results_udp).kind = "dict")
          => get_result(results_udp).total_data_mb.num
                = total_data(Len(results_udp), data_size)

\* C5 (as claimed): get_result is None exactly for the empty sequence and
\* never raises a division error, whatever the samples; then
\* create_benchmark_result is None exactly when get_result is.
C5_NoDivisionError ==
    \A results \in {results_tcp, results_udp} :
        /\ get_result(results).kind # "raise"
        /\ (get_result(results) = None) <=> (results = <<>>)
        /\ (create_benchmark_result(results, "TCP") = None)
              <=> (get_result(results) = None)

\* C6 (as claimed): the UDP server echoes a datagram if and only if its
\* length is data_size; a shorter or longer one is dropped and does not
\* end the server loop.
C6_EchoIffExactLength ==
    served.outcome # "none" =>
        /\ (served.outcome = "echo") <=> (served.len = data_size)
        /\ served.outcome # "error"

\* C7: in handle_client a read of a non-zero length, equal to data_size or
\* not, is followed by the echo and does not end the loop; the loop ends
\* without an echo of the last read only when that read was empty.
C7_PartialReadIsEchoed ==
    /\ sdata > 0 => (spc = "echo" \/ sechoed)
    /\ sdata = 0 => (~sechoed /\ spc \in {"finally", "done"})
    /\ (sexit = "disconnected") <=> (sdata = 0)

C7_Witness ==
    /\ sdata > 0 /\ sdata # data_size
    /\ sechoed /\ spc = "read" /\ handle_client_more(si)

\* C8 (as claimed): in comparison mode an exception that escapes the TCP
\* run is reported and the UDP run is still executed.
C8_TcpExceptionLeavesUdpRun ==
    (args = "compare" /\ raised = "tcp" /\ main_ended) => ucpc = "done"

\* C9 (as claimed): when the connectivity pre-check fails no TCP client
\* iteration starts, and comparison mode still attempts the UDP leg.
C9_PrecheckFailureLeavesUdpRun ==
    (args = "compare" /\ check_result = "False" /\ main_ended)
        => (cpc = "idle" /\ tcp_result = Unset /\ ucpc = "done")

\* C10: after a failed TCP connect the client has run no iteration and
\* recorded no sample, its result is None, nothing is raised, and a
\* comparison run does not end before the UDP client has run.
C10_ConnectFailureAbortsOnlyTcp ==
    connect_failed =>
        /\ ci = 0 /\ c2s = 0 /\ results_tcp = <<>>
        /\ cpc \in {"done", "idle"}
        /\ tcp_client_returned => get_result(results_tcp) = None
        /\ tcp_result \in {Unset, None}
        /\ raised # "tcp"
        /\ (args = "compare" /\ main_ended) => ucpc = "done"

C10_Witness ==
    /\ connect_failed /\ args = "compare"
    /\ pc = "exit0" /\ tcp_result = None /\ ucpc = "done"

\* C11 (as claimed): once tcp_client has opened its connection, the
\* connection is closed when tcp_client returns, by whatever path: loop
\* completed, timeout, empty read, or an exception during a send or receive.
C11_ClientConnectionClosedOnEveryExit ==
    (tcp_client_returned /\ cwriter # "none") => cwriter = "closed"

\* C12: when handle_client has ended, by whatever path, the connection's
\* writer has been closed; an error during that close was logged and the
\* handler still ended normally.
C12_HandlerWriterClosedOnEveryExit ==
    /\ spc = "done" =>
          /\ swriter = "closed"
          /\ sexit # "none"
          /\ sclose \in {"closed", "error_logged"}
    /\ sclose # "none" => spc = "done"

C12_Witness ==
    /\ spc = "done" /\ swriter = "closed"
    /\ sexit = "ConnectionResetError" /\ sclose = "error_logged"

\* C13: when udp_client has returned, by whatever path (all iterations
\* done, receive timeout, another exception), its socket is closed.
C13_UdpClientSocketClosedOnEveryExit ==
    /\ udp_client_returned => ucsock = "closed"
    /\ ucpc = "done" => ucexit \in {"completed", "timeout", "OSError"}

C13_Witness ==
    /\ ucpc = "done" /\ ucexit = "timeout" /\ ucsock = "closed"
    /\ ui < iterations

\* C14: a UDP client run to which the server never sent a reply (and
\* whose send did not fail) ends with a receive timeout in its first
\* iteration, with no sample, and get_result is None.
C14_NoReplyEndsInTimeout ==
    (udp_client_returned /\ echoes = 0 /\ ucexit # "OSError") =>
        /\ ucexit = "timeout"
        /\ ui = 0
        /\ results_udp = <<>>
        /\ get_result(results_udp) = None

C14_Witness ==
    /\ pc = "udp_print" /\ echoes = 0 /\ udp_bound
    /\ ucexit = "timeout" /\ ui = 0 /\ iterations > 1
    /\ get_result(results_udp) = None

\* C15: for a sample sequence of length 0 or 1 the standard deviation
\* get_result computes is exactly 0, and so is the one it reports whenever
\* it returns a dictionary for such a sequence.
C15_StdDevZeroForShortSequences ==
    \A results \in {results_tcp, results_udp} :
        Len(results) <= 1 =>
            /\ std_dev(results).sqrt_of.num = 0
            /\ std_dev(results).sqrt_of.den # 0
            /\ get_result(results).kind = "dict" =>
                  /\ get_result(results).std_dev.sqrt_of.num = 0
                  /\ get_result(results).std_dev.sqrt_of.den # 0

C15_Witness ==
    /\ pc = "tcp_print" /\ Len(results_tcp) = 1
    /\ get_result(results_tcp).kind = "dict"
    /\ get_result(results_tcp).std_dev.sqrt_of.num = 0

\* C16: each local-mode protocol run takes the steps START_EMBEDDED_SERVER,
\* RUN_CLIENT, STOP_EMBEDDED_SERVER, COLLECT_RESULT, DONE in this order,
\* none skipped or repeated: the server is started before the client does
\* anything, the stop is signalled only once the client has finished, and
\* a result exists only after the stop.
C16_LocalRunOrder ==
    host = "localhost" =>
        /\ IsPrefix(phases.tcp, LocalOrder)
        /\ IsPrefix(phases.udp, LocalOrder)
        /\ cpc # "idle" =>
              /\ server_task # "none"
              /\ Len(phases.tcp) >= 2
        /\ cpc \notin {"idle", "done"} => Last(phases.tcp) = "RUN_CLIENT"
        /\ server_task = "cancelled" =>
              /\ cpc = "done"
              /\ Last(phases.tcp) = "STOP_EMBEDDED_SERVER"
        /\ tcp_result # Unset => Last(phases.tcp) = "DONE"
        /\ ucpc # "idle" =>
              /\ upc # "none"
              /\ Len(phases.udp) >= 2
        /\ ucpc \notin {"idle", "done"} =>
              /\ Last(phases.udp) = "RUN_CLIENT"
              /\ pc = "udp_client"
        /\ Len(phases.udp) >= 3 => ucpc = "done"
        /\ udp_result # Unset => Last(phases.udp) = "DONE"

C16_Witness ==
    /\ host = "localhost" /\ args = "compare" /\ pc = "exit0"
    /\ phases.tcp = LocalOrder /\ phases.udp = LocalOrder
    /\ tcp_result.kind = "BenchmarkResult"
    /\ udp_result.kind = "BenchmarkResult"

\* C17: in remote mode the orchestrator starts and stops no server for
\* either protocol: a run is the client leg, then the result collection,
\* and the server's state is only what the remote process made it.
C17_RemoteRunsOnlyClient ==
    host # "localhost" =>
        /\ IsPrefix(phases.tcp, RemoteOrder)
        /\ IsPrefix(phases.udp, RemoteOrder)
        /\ server_task \in {"none", "listening"}
        /\ upc \notin {"bind", "set_running", "dead"}
        /\ server_running = (upc # "none")

C17_Witness ==
    /\ host # "localhost" /\ args = "compare" /\ pc = "exit0"
    /\ phases.tcp = RemoteOrder /\ phases.udp = RemoteOrder
    /\ server_task = "listening" /\ server_running

\* C18: in a comparison run the UDP run leaves IDLE only when the TCP run
\* is DONE (client finished, server stop signalled, result collected); the
\* reporter is called at most once, only after both runs are DONE, with the
\* TCP result first and the UDP result second, and exactly once in a run
\* that returns True.
C18_SequentialRunsThenOneReport ==
    /\ args = "compare" =>
          /\ phases.udp # <<>> =>
                /\ phases.tcp = IF host = "localhost" THEN LocalOrder
                                ELSE RemoteOrder
                /\ tcp_result # Unset
                /\ cpc = "idle"
                /\ server_task \notin {"pending", "cancelled", "failed"}
          /\ reports <= 1
          /\ reports = 0 => reported = <<>>
          /\ reports = 1 =>
                /\ Last(phases.tcp) = "DONE"
                /\ phases.udp # <<>> /\ Last(phases.udp) = "DONE"
                /\ reported = <<tcp_result, udp_result>>
                /\ reported[1].kind = "BenchmarkResult"
                      => reported[1].protocol = "TCP"
                /\ reported[2].kind = "BenchmarkResult"
                      => reported[2].protocol = "UDP"
          /\ (pc = "exit0" /\ check_result # "False") => reports = 1
    /\ args # "compare" => reports = 0

C18_Witness ==
    /\ args = "compare" /\ pc = "exit0" /\ reports = 1
    /\ reported[1].kind = "BenchmarkResult"
    /\ reported[2].kind = "BenchmarkResult"

\* C19 (as claimed): once the orchestrator has set the UDP server's run
\* flag to false, the server loop eventually sees it, leaves the loop and
\* closes its socket, also when it is waiting in recvfrom and no further
\* datagram arrives.
C19_ServerStopsAfterFlagCleared ==
    (/\ host = "localhost" /\ pc = "udp_join" /\ ~server_running
     /\ upc = "recv" /\ toSrv = <<>>)
        ~> (upc = "stopped")

\* C20: with several connections served at once, a timeout, a reset or a
\* broken pipe that ended one connection's loop leaves the server
\* listening, lets it accept a connection not yet made, and leaves every
\* other connection's loop able to take its next read or echo; each
\* handler closes its own writer only.
C20_FaultEndsOnlyItsOwnConnection ==
    \A j \in Conns :
        conn_faulted(j) =>
            /\ server_task = "listening"
            /\ \A k \in Conns \ {j} :
                  /\ conns[k].hpc = "idle" => ENABLED accept(k)
                  /\ conns[k].hpc = "echo" => ENABLED conn_echo(k)
                  /\ (conns[k].hpc = "read" /\ conns[k].c2s > 0)
                        => ENABLED conn_read(k)
                  /\ (conns[k].hpc \in {"read", "echo"})
                        => conns[k].writer = "open"

C20_Witness ==
    \E j \in Conns, k \in Conns :
        /\ j # k /\ iterations > 1
        /\ conns[j].exit = "ConnectionResetError" /\ conns[j].hpc = "done"
        /\ conns[k].hpc = "echo" /\ conns[k].i >= 1
        /\ conns[k].writer = "open" /\ server_task = "listening"

\* The TCP client's run met a failure: a timeout, an empty read, a reset,
\* a broken pipe or a failed connect.
tcp_client_failed == cexit \notin {"none", "completed"}

\* C21: after a failed TCP client iteration no further iteration is run;
\* the samples recorded so far stay as they are, in order, for as long as
\* the benchmark object lives (one per completed iteration, and the one the
\* client records for an empty read); and get_result is not None when
\* there is at least one sample.
C21_FailureKeepsSamples ==
    /\ [](tcp_client_failed =>
            /\ pc = "tcp_client" => cpc \in {"close", "done"}
            /\ Len(results_tcp)
                  = ci + (IF cexit = "disconnected" THEN 1 ELSE 0)
            /\ (tcp_client_returned /\ results_tcp # <<>>)
                  => get_result(results_tcp) # None)
    /\ [][/\ (tcp_client_failed /\ cexit' = cexit)
                => (results_tcp' = results_tcp /\ ci' = ci)
          /\ (pc = "tcp_client" /\ pc' = "tcp_client")
                => IsPrefix(results_tcp, results_tcp')]_vars

C21_Witness ==
    /\ pc = "tcp_print" /\ cexit = "recv_timeout" /\ iterations > 1
    /\ Len(results_tcp) = 1 /\ ci = 1
    /\ get_result(results_tcp).kind = "dict"

\* A protocol run that took the steps `log` is over: it reached DONE, or
\* main caught an exception and called sys.exit(1).
run_over(log) ==
    \/ log # <<>> /\ Last(log) = "DONE"
    \/ pc = "exit1"

C23_NoRetry ==
    /\ \A p \in {"tcp", "udp"} :
          /\ sends[p] <= iterations
          /\ recvs[p] <= sends[p]
          /\ sends[p] <= recvs[p] + 1
    /\ cpc # "idle" =>
          /\ sends.tcp <= ci + 1
          /\ cpc = "send" => sends.tcp = ci
          /\ cpc = "recv" => (sends.tcp = ci + 1 /\ recvs.tcp = ci)
    /\ /\ sends.udp <= ui + 1
       /\ ucpc = "send" => sends.udp = ui
       /\ ucpc = "recv" => (sends.udp = ui + 1 /\ recvs.udp = ui)

C23_Witness ==
    /\ iterations > 1
    /\ pc = "tcp_print" /\ sends.tcp = iterations /\ recvs.tcp = iterations
    /\ cexit = "completed"

\* C24 (as claimed): the TCP client records a sample only for an iteration
\* whose receive returned a non-empty reply, so there are as many samples
\* as completed round trips; when the server closes the connection before
\* any reply the sequence stays empty and get_result is None.
C24_SampleOnlyForRoundTrip ==
    cpc # "idle" =>
        /\ Len(results_tcp) = ci
        /\ (tcp_client_returned /\ cexit = "disconnected" /\ ci = 0)
              => (results_tcp = <<>> /\ get_result(results_tcp) = None)

\* C25 (as claimed): in a local-mode UDP run, once the orchestrator has set
\* the run flag to false (the STOP_EMBEDDED_SERVER step) the flag is never
\* true again, under every interleaving with the server thread.
C25_FlagStaysFalseAfterStop ==
    (host = "localhost" /\ Len(phases.udp) >= 3) => ~server_running

\* C26 (as claimed): in the standalone server, once SIGINT or SIGTERM has
\* been delivered the run flag is false and both servers eventually stop:
\* the TCP server no longer listens, the UDP loop has ended and closed its
\* socket, and run_servers has returned.
C26_SignalStopsServers ==
    /\ [](signalled => ~running)
    /\ (signalled /\ rpc = "serving")
          ~> (server_task # "listening" /\ upc \in {"stopped", "dead"}
              /\ rpc # "serving")

=============================================================================
